---- MODULE Spec2Model ----
(***************************************************************************)
(* Model of elroi's line/step graph layer (src/lib/lines.js): the          *)
(* recursive per-series path walk drawLine, its immediate and animated     *)
(* sequencing, the fill and overlay requests it makes, and the hover       *)
(* rollovers built by lineHover.                                           *)
(***************************************************************************)
EXTENDS Integers, Sequences, FiniteSets, TLC

VARIABLES
    graph,              \* the graph object handed to lines(): scale context and options
    alive,              \* the chart has not been torn down
    layers,             \* per lines() instance: its series, seriesOptions, minVal, yTick
    animation,          \* graph.options.animation
    numPoints,          \* graph.numPoints: the length every series has
    tooltips,           \* the x-indices j for which graph.tooltips[j] is available
    drawn,              \* per layer: draw() has been called
    walk,               \* per layer, per series: the drawLine walk and what it requested from the paper
    rollOvers,          \* per layer: the hit rectangles created by lineHover, by x-index
    highlightSets,      \* per layer: the highlight circles created by lineHover, by x-index
    currentHighlights,  \* per layer: which highlight set the closure variable refers to
    tooltip             \* position of graph.$tooltip

vars == <<graph, alive, layers, animation, numPoints, tooltips, drawn, walk, rollOvers, highlightSets,
          currentHighlights, tooltip>>

---------------------------------------------------------------------------
(* Bounds of the model *)

\* longest series
MaxLen == 3
\* most series in one layer
NumSeries == 2
\* most data points in one chart of the drawing specification
MaxPoints == 6
\* line layers in the hover specification
NumLayers == 2
\* longest series in the hover specification
HoverLen == 2
\* most data points in one chart of the hover specification
HoverPoints == 4
\* widest column of the radius specification
MaxWidth == 6
\* widest point stroke of the radius specification
MaxStroke == 3
\* greatest desired point radius of the radius specification
MaxRadius == 3
\* half the widest column and half the widest label of the mapper specification
MaxHalfWidth == 3

---------------------------------------------------------------------------
(* JavaScript values *)

Null == [t |-> "null", n |-> 0]
Num(n) == [t |-> "number", n |-> n]
NegInfinity == [t |-> "-Infinity", n |-> 0]
NaN == [t |-> "NaN", n |-> 0]

\* a value that is present but not numeric: a non-empty string such as "abc"
NotNumeric == [t |-> "string", n |-> 0]

\* the point values a series may hold
Values == {Null, Num(-1), Num(0), Num(2)}

\* ToBoolean: a non-empty string is true
Truthy(v) == (v.t = "number" /\ v.n # 0) \/ v.t = "string"

\* ToNumber, as applied by the binary minus and by Math.max: null becomes 0,
\* a string that is not a numeral becomes NaN
ToNumber(v) ==
    IF v.t = "null" THEN Num(0)
    ELSE IF v.t = "string" THEN NaN
    ELSE v

\* a < b on numbers that may be -Infinity or NaN
JsLess(a, b) ==
    IF a.t = "NaN" \/ b.t = "NaN" THEN FALSE
    ELSE IF a.t = "-Infinity" THEN b.t # "-Infinity"
    ELSE IF b.t = "-Infinity" THEN FALSE
    ELSE a.n < b.n

\* a - b where b is finite
JsMinus(a, b) == IF a.t = "number" THEN Num(a.n - b) ELSE a

\* the element of a one-element set; Only({F(v) : v \in {e}}) is F(e) with e evaluated once
Only(S) == CHOOSE r \in S : TRUE

\* Math.max.apply(Math, seq): -Infinity for no arguments, NaN when an argument is NaN
RECURSIVE MathMax(_)
MathMax(seq) ==
    IF seq = <<>> THEN NegInfinity
    ELSE Only({ IF head.t = "NaN" \/ rest.t = "NaN" THEN NaN
                ELSE IF JsLess(rest, head) THEN head ELSE rest :
                    rest \in {MathMax(Tail(seq))}, head \in {ToNumber(Head(seq))} })

---------------------------------------------------------------------------
(* The graph object handed to lines(): scale context and options *)

\* a graph object; the widths xTick and labelWidth are even where their halves
\* are taken as pixel coordinates
GraphOf(xTick, labelWidth, pointStrokeWidth, pointRadius) ==
    [ xTick |-> xTick, labelWidth |-> labelWidth, height |-> 100, labelLineHeight |-> 12,
      showEvery |-> 2,
      padding |-> [left |-> 4, top |-> 2, bottom |-> 6],
      options |-> [ flagOffset |-> 5,
                    tooltip |-> [show |-> TRUE, width |-> 40],
                    lines |-> [ pointStrokeWidth |-> pointStrokeWidth,
                                pointRadius |-> pointRadius, width |-> 2,
                                highlightRadius |-> 3, highlightOpacity |-> 1 ] ] ]

\* columns as wide as their labels
PlainGraph == GraphOf(10, 10, 2, 3)

pointOffsetX == graph.labelWidth \div 2

\* Variant of calculatePointRadius: the radius is not held at 0 from below
RadiusUnclampedBelow(xTick, pointStrokeWidth, pointRadius) ==
    LET MINIMUM_SPACING == 1
        calculated == xTick - MINIMUM_SPACING - pointStrokeWidth
    IN  IF calculated > 2 * pointRadius THEN 2 * pointRadius ELSE calculated

\* calculatePointRadius, in half pixels: twice the radius it returns, because
\* (xTick - MINIMUM_SPACING - pointStrokeWidth) / 2 may end in .5
calculatePointRadius(xTick, pointStrokeWidth, pointRadius) ==
    LET MINIMUM_SPACING == 1
        calculated == xTick - MINIMUM_SPACING - pointStrokeWidth
    IN  IF calculated < 0 THEN 0
        ELSE IF calculated > 2 * pointRadius THEN 2 * pointRadius
        ELSE calculated

\* in half pixels
calculatedPointRadius ==
    calculatePointRadius(graph.xTick, graph.options.lines.pointStrokeWidth,
                         graph.options.lines.pointRadius)

\* in half pixels: calculatedPointRadius + pointStrokeWidth * .5, or 0
pointOffsetY ==
    IF calculatedPointRadius # 0
    THEN calculatedPointRadius + graph.options.lines.pointStrokeWidth
    ELSE 0

\* the pixel coordinate NaN, coded as a number that no pixel computation of
\* the model yields; arithmetic and comparisons treat it apart
NaNCoordinate == -1000000

\* a pixel point, or the absence of one (undefined / null)
NoPoint == [some |-> FALSE, x |-> 0, y |-> 0]
Pt(x, y) == [some |-> TRUE, x |-> x, y |-> y]

\* path segments
MoveTo(x, y) == [c |-> "M", x |-> x, y |-> y]
LineTo(x, y) == [c |-> "L", x |-> x, y |-> y]

\* Variant of PointX: the point is not centred on its label
PointXAtLeftEdge(index) == index * graph.xTick + graph.padding.left

PointX(index) == index * graph.xTick + graph.padding.left + pointOffsetX

PointY(value, minVal, yTick) ==
    IF ToNumber(value).t = "NaN" THEN NaNCoordinate
    ELSE graph.height - ((ToNumber(value).n - minVal) * yTick)
           - graph.padding.bottom + graph.padding.top

---------------------------------------------------------------------------
(* drawLine: one series, one point per call *)

\* Variant of IsNullPoint: every falsy value is null, the number 0 too
IsNullPointFalsy(value) == ~Truthy(value)

\* var isNullPoint = !(value || value === 0)
IsNullPoint(value) == ~(Truthy(value) \/ (value.t = "number" /\ value.n = 0))

\* seriesOptions.interpolateNulls || seriesOptions.type === 'step'
Interpolates(seriesOptions) ==
    seriesOptions.interpolateNulls \/ seriesOptions.type = "step"

\* Variant of LineStartedOnEntry: the flag is not reset after a null point
LineStartedKept(prevPoint, seriesOptions, isLineStarted) == isLineStarted

\* "If we aren't interpolating nulls, don't draw from the previous null point"
LineStartedOnEntry(prevPoint, seriesOptions, isLineStarted) ==
    IF ~prevPoint.some /\ ~Interpolates(seriesOptions) THEN FALSE ELSE isLineStarted

\* the draw-to branch is taken
DrawsTo(isFirstPoint, isLineStarted, isNullPoint) ==
    ~isFirstPoint /\ isLineStarted /\ ~isNullPoint

\* the draw-to branch of step mode reads prevPoint.y: a TypeError without a prevPoint
Throws(seriesOptions, isFirstPoint, isLineStarted, isNullPoint, prevPoint) ==
    /\ DrawsTo(isFirstPoint, isLineStarted, isNullPoint)
    /\ seriesOptions.type = "step"
    /\ ~prevPoint.some

\* Variant of PathString: step mode draws the diagonal like the other modes
PathStringDiagonal(seriesOptions, isFirstPoint, isLineStarted, isNullPoint, x, y, prevPoint) ==
    IF DrawsTo(isFirstPoint, isLineStarted, isNullPoint)
    THEN <<LineTo(x, y)>>
    ELSE IF isNullPoint /\ ~isFirstPoint
         THEN <<>>
         ELSE <<MoveTo(x, y)>>

\* pathString: the segments this point adds to the path
PathString(seriesOptions, isFirstPoint, isLineStarted, isNullPoint, x, y, prevPoint) ==
    IF DrawsTo(isFirstPoint, isLineStarted, isNullPoint)
    THEN IF seriesOptions.type = "step"
         THEN <<LineTo(x, prevPoint.y), LineTo(x, y)>>
         ELSE <<LineTo(x, y)>>
    ELSE IF isNullPoint /\ ~isFirstPoint
         THEN <<>>
         ELSE <<MoveTo(x, y)>>

\* Variant of LineStartedAfter: any first point starts the line, a null one too
LineStartedByAnyPoint(isLineStarted, isNullPoint) == TRUE

\* Variant of LineStartedAfter: the flag is never set
LineNeverStarted(isLineStarted, isNullPoint) == isLineStarted

\* "The line is started once we hit our first non-null point"
LineStartedAfter(isLineStarted, isNullPoint) ==
    IF ~isLineStarted /\ ~isNullPoint THEN TRUE ELSE isLineStarted

\* Variant of ThisPoint: a null point clears prevPoint in every mode
ThisPointClearedByNull(seriesOptions, isNullPoint, prevPoint, x, y) ==
    IF isNullPoint THEN NoPoint ELSE Pt(x, y)

\* thisPoint: the prevPoint handed to the next call
ThisPoint(seriesOptions, isNullPoint, prevPoint, x, y) ==
    IF Interpolates(seriesOptions)
    THEN IF isNullPoint THEN prevPoint ELSE Pt(x, y)
    ELSE IF isNullPoint THEN NoPoint ELSE Pt(x, y)

\* the y of the baseline
YZero == graph.height - graph.padding.bottom + graph.padding.top

\* the fill shapes created for this point: the final path of fillLine, if any
FillLine(isLineFilled, prevPoint, isNullPoint, index, x, y) ==
    IF isLineFilled /\ prevPoint.some /\ ~isNullPoint
    THEN << [ index |-> index,
              path |-> << MoveTo(prevPoint.x, YZero), LineTo(prevPoint.x, prevPoint.y),
                          LineTo(x, y), LineTo(x, YZero) >> ] >>
    ELSE <<>>

\* drawPoint: the radius the circle ends with, in half pixels; a point without
\* stroke is a dot of radius graph.options.lines.width
CircleRadius(stroke) ==
    IF stroke THEN calculatedPointRadius ELSE 2 * graph.options.lines.width

\* Variant of DrawPoint: a marker for null points too
DrawPointForNulls(seriesOptions, isNullPoint, index, x, y) ==
    IF seriesOptions.showPoints
    THEN << [ index |-> index, x |-> x, y |-> y,
              r |-> CircleRadius(seriesOptions.pointStroke) ] >>
    ELSE <<>>

\* drawPoint, as called from pointsAndLabels: the circle created for this point
DrawPoint(seriesOptions, isNullPoint, index, x, y) ==
    IF ~isNullPoint /\ seriesOptions.showPoints
    THEN << [ index |-> index, x |-> x, y |-> y,
              r |-> CircleRadius(seriesOptions.pointStroke) ] >>
    ELSE <<>>

\* drawPointLabel, as called from pointsAndLabels: the label span appended for
\* this point; top is y + pointOffsetY in half pixels
DrawPointLabel(seriesOptions, isNullPoint, index, x, y) ==
    LET isOffGraph == y # NaNCoordinate /\ graph.height - graph.labelLineHeight < y
        isInSetToShow == index % graph.showEvery = 0
    IN  IF ~isNullPoint /\ seriesOptions.labelPoints /\ ~isOffGraph /\ isInSetToShow
        THEN << [ index |-> index, x |-> x, y |-> y,
                  left |-> x - pointOffsetX,
                  top |-> IF y = NaNCoordinate THEN NaNCoordinate
                          ELSE 2 * y + pointOffsetY ] >>
        ELSE <<>>

\* Variant of EndOfSeries: the walk ends one point early
EndOfSeriesEarly(index, series) == index >= Len(series) - 1

\* Variant of EndOfSeries: the walk ends one point late
EndOfSeriesLate(index, series) == index > Len(series)

\* "End recursion once you've hit the last point"
EndOfSeries(index, series) == index = Len(series)

\* the walk of a series before drawAllLines reaches it
IdleWalk ==
    [ status |-> "idle",
      index |-> 0, prevPoint |-> NoPoint, isLineStarted |-> FALSE, currentPath |-> <<>>,
      lineCreated |-> FALSE, linePath |-> <<>>,
      animating |-> {},
      visited |-> <<>>, segments |-> <<>>, fills |-> <<>>, points |-> <<>>, labels |-> <<>> ]

\* var line = graph.paper.path("M0 0"), then the first call's arguments
NewLine(w) == [w EXCEPT !.lineCreated = TRUE, !.linePath = <<MoveTo(0, 0)>>]

\* The body of one drawLine call up to the choice of sequencing: what the call
\* computes (the line animation it is about to request) and the walk with the
\* call's segment and fill recorded. Reading series[index].value past the end
\* of the series is a TypeError, like reading prevPoint.y without a prevPoint.
Step(w, series, layer) ==
    LET index == w.index
        inRange == (index + 1) \in DOMAIN series
        value == series[index + 1]
        so == layer.seriesOptions
        isNullPoint == IsNullPoint(value)
        x == PointX(index)
        y == PointY(value, layer.minVal, layer.yTick)
        isFirstPoint == index = 0
        started == LineStartedOnEntry(w.prevPoint, so, w.isLineStarted)
        throws == \/ ~inRange
                  \/ Throws(so, isFirstPoint, started, isNullPoint, w.prevPoint)
        pathString == PathString(so, isFirstPoint, started, isNullPoint, x, y, w.prevPoint)
    IN  [ throws |-> throws,
          walk |-> IF throws
                   THEN [w EXCEPT !.visited = Append(@, index)]
                   ELSE [w EXCEPT
                          !.visited = Append(@, index),
                          !.segments = Append(@, [ index |-> index,
                                                   prevPoint |-> w.prevPoint,
                                                   isLineStarted |-> started,
                                                   currentPath |-> w.currentPath,
                                                   pathString |-> pathString ]),
                          !.fills = @ \o FillLine(so.fillLines, w.prevPoint, isNullPoint,
                                                  index, x, y)],
          anim |-> IF throws
                   THEN [ index |-> index, path |-> w.currentPath,
                          thisPoint |-> w.prevPoint, isLineStarted |-> w.isLineStarted ]
                   ELSE [ index |-> index,
                          path |-> w.currentPath \o pathString,
                          thisPoint |-> ThisPoint(so, isNullPoint, w.prevPoint, x, y),
                          isLineStarted |-> LineStartedAfter(started, isNullPoint) ] ]

\* The line takes the path, pointsAndLabels runs, and the arguments of the next call are set.
Commit(w, anim, series, layer) ==
    LET index == anim.index
        value == series[index + 1]
        so == layer.seriesOptions
        isNullPoint == IsNullPoint(value)
        x == PointX(index)
        y == PointY(value, layer.minVal, layer.yTick)
    IN  [w EXCEPT
          !.linePath = anim.path,
          !.points = @ \o DrawPoint(so, isNullPoint, index, x, y),
          !.labels = @ \o DrawPointLabel(so, isNullPoint, index, x, y),
          !.index = index + 1,
          !.prevPoint = anim.thisPoint,
          !.isLineStarted = anim.isLineStarted,
          !.currentPath = anim.path ]

\* Variant of drawLine: under animation the next call is made right after
\* line.animate, not from its completion callback
RECURSIVE drawLineEager(_, _, _)
drawLineEager(w, series, layer) ==
    IF EndOfSeries(w.index, series)
    THEN [w EXCEPT !.status = "done"]
    ELSE Only({ IF s.throws
                THEN [s.walk EXCEPT !.status = "error"]
                ELSE IF animation
                     THEN drawLineEager([s.walk EXCEPT !.animating = @ \cup {s.anim},
                                                       !.index = @ + 1,
                                                       !.prevPoint = s.anim.thisPoint,
                                                       !.isLineStarted = s.anim.isLineStarted,
                                                       !.currentPath = s.anim.path],
                                        series, layer)
                     ELSE Only({ drawLineEager(c, series, layer) :
                                   c \in {Commit(s.walk, s.anim, series, layer)} })
                : s \in {Step(w, series, layer)} })

\* drawLine(args): returns at the end of the series; otherwise requests the
\* line animation and returns (animation), or sets the path and recurses.
RECURSIVE drawLine(_, _, _)
drawLine(w, series, layer) ==
    IF EndOfSeries(w.index, series)
    THEN [w EXCEPT !.status = "done"]
    ELSE Only({ IF s.throws
                THEN [s.walk EXCEPT !.status = "error"]
                ELSE IF animation
                     THEN [s.walk EXCEPT !.status = "animating", !.animating = @ \cup {s.anim}]
                     ELSE Only({ drawLine(c, series, layer) :
                                   c \in {Commit(s.walk, s.anim, series, layer)} })
                : s \in {Step(w, series, layer)} })

---------------------------------------------------------------------------
(* lineHover: the rollover of one x-index over all series of the layer *)

\* the values of the layer's series at index that are not null ("skip any null points")
RECURSIVE PointsInSet(_, _, _)
PointsInSet(series, index, i) ==
    IF i > Len(series) THEN <<>>
    ELSE IF Truthy(series[i][index + 1])
            \/ (series[i][index + 1].t = "number" /\ series[i][index + 1].n = 0)
         THEN <<series[i][index + 1]>> \o PointsInSet(series, index, i + 1)
         ELSE PointsInSet(series, index, i + 1)

\* Variant of ClampTopPoint: the clamp is left out
TopPointUnclamped(topPoint, minVal) == topPoint

\* "Pull the tooltip up to 0 if the graph drops below the x-axis"
ClampTopPoint(topPoint, minVal) ==
    IF JsLess(JsMinus(topPoint, minVal), Num(0)) THEN Num(minVal) ELSE topPoint

TopPoint(series, index, minVal) ==
    ClampTopPoint(MathMax(PointsInSet(series, index, 1)), minVal)

\* the highlight circles of one x-index, created with opacity 0
RECURSIVE Highlights(_, _, _)
Highlights(layer, index, i) ==
    IF i > Len(layer.series) THEN <<>>
    ELSE IF ~IsNullPoint(layer.series[i][index + 1])
         THEN << [ series |-> i,
                   x |-> PointX(index),
                   y |-> PointY(layer.series[i][index + 1], layer.minVal, layer.yTick),
                   opacity |-> 0 ] >> \o Highlights(layer, index, i + 1)
         ELSE Highlights(layer, index, i + 1)

\* the invisible bar over the column of index
RollOverBar(layer, index) ==
    [ x |-> (index * graph.xTick + graph.padding.left) - (graph.xTick \div 2) + pointOffsetX,
      y |-> 0, width |-> graph.xTick, height |-> graph.height,
      pointsInSet |-> PointsInSet(layer.series, index, 1),
      topPoint |-> TopPoint(layer.series, index, layer.minVal) ]

\* set.attr('opacity', o) on a set of circles
SetOpacity(circles, o) == [k \in DOMAIN circles |-> [circles[k] EXCEPT !.opacity = o]]

\* the initial value of currentHighlights: an empty paper.set()
EmptySet == -1

\* the mouseover handler's three statements on the layer's highlight sets
ShowHighlights(sets, current, index) ==
    LET hidden == IF current = EmptySet THEN sets
                  ELSE [sets EXCEPT ![current] = SetOpacity(@, 0)]
    IN  [hidden EXCEPT ![index] = SetOpacity(@, graph.options.lines.highlightOpacity)]

\* the mouseleave handler of one layer
HideHighlights(sets, current) ==
    IF current = EmptySet THEN sets ELSE [sets EXCEPT ![current] = SetOpacity(@, 0)]

\* where the mouseover handler puts the tooltip
TooltipPosition(layer, index, topPoint) ==
    [ left |-> index * graph.xTick + graph.padding.left + pointOffsetX
                 - (graph.options.tooltip.width \div 2),
      bottom |-> IF topPoint.t = "NaN" THEN NaNCoordinate
                 ELSE ((topPoint.n - layer.minVal) * layer.yTick) - graph.padding.top
                        + graph.padding.bottom + graph.options.flagOffset
                        + graph.options.lines.pointStrokeWidth
                        + graph.options.lines.highlightRadius ]

---------------------------------------------------------------------------
(* drawAllLines *)

\* the for loop over the layer's series; an exception thrown by drawLine ends it
RECURSIVE DrawSeriesFrom(_, _, _)
DrawSeriesFrom(ws, j, layer) ==
    IF j > Len(layer.series) THEN ws
    ELSE Only({ IF w.status = "error"
                THEN [ws EXCEPT ![j] = w]
                ELSE Only({ DrawSeriesFrom(next, j + 1, layer) : next \in {[ws EXCEPT ![j] = w]} })
                : w \in {drawLine(NewLine(ws[j]), layer.series[j], layer)} })

\* the x-indices that get a rollover
RollOverIndices == {j \in 0 .. (numPoints - 1) : j \in tooltips}

Failed(ws) == \E j \in DOMAIN ws : ws[j].status = "error"

\* draw() of layer l: the lines of all its series, then its rollovers on top.
\* The chart draws its layers once each, in order. graph.options.error is not
\* set, so a rollover spans the whole height.
DrawAllLines(l) ==
    /\ l \in DOMAIN layers
    /\ ~drawn[l]
    /\ \A k \in 1 .. (l - 1) : drawn[k]
    /\ \E ws \in {DrawSeriesFrom(walk[l], 1, layers[l])} :
           /\ walk' = [walk EXCEPT ![l] = ws]
           /\ IF Failed(ws)
              THEN UNCHANGED <<rollOvers, highlightSets>>
              ELSE /\ rollOvers' = [rollOvers EXCEPT ![l] =
                          [j \in RollOverIndices |-> RollOverBar(layers[l], j)]]
                   /\ highlightSets' = [highlightSets EXCEPT ![l] =
                          [j \in RollOverIndices |-> Highlights(layers[l], j, 1)]]
    /\ drawn' = [drawn EXCEPT ![l] = TRUE]
    /\ UNCHANGED <<graph, alive, layers, animation, numPoints, tooltips, currentHighlights, tooltip>>

\* Variant of AnimationComplete: index, thisPoint, isLineStarted and the path
\* of the callback are variables shared by the series of the layer, so the
\* callback of one series may run with what another series' call left there
AnimationCompleteSharedArgs(l, j) ==
    /\ l \in DOMAIN layers
    /\ j \in DOMAIN walk[l]
    /\ walk[l][j].animating # {}
    /\ \E k \in DOMAIN walk[l] : \E a \in walk[l][k].animating :
         \E w \in {Commit([walk[l][j] EXCEPT !.animating = {}], a,
                            layers[l].series[j], layers[l])} :
             walk' = [walk EXCEPT ![l][j] = drawLine(w, layers[l].series[j], layers[l])]
    /\ UNCHANGED <<graph, alive, layers, animation, numPoints, tooltips, drawn, rollOvers,
                   highlightSets, currentHighlights, tooltip>>

\* the completion callback of a line animation: pointsAndLabels(), then drawLine
AnimationComplete(l, j) ==
    /\ l \in DOMAIN layers
    /\ j \in DOMAIN walk[l]
    /\ \E a \in walk[l][j].animating :
         \E w \in {Commit([walk[l][j] EXCEPT !.animating = @ \ {a}], a,
                            layers[l].series[j], layers[l])} :
             walk' = [walk EXCEPT ![l][j] = drawLine(w, layers[l].series[j], layers[l])]
    /\ UNCHANGED <<graph, alive, layers, animation, numPoints, tooltips, drawn, rollOvers,
                   highlightSets, currentHighlights, tooltip>>

\* rollOvers.toFront(): the rollovers of a layer drawn later lie over those of
\* the layers drawn before, column by column, and take their pointer events
Topmost(l, j) == \A k \in DOMAIN layers : k > l => j \notin DOMAIN rollOvers[k]

\* rollOverBar.mouseover
MouseOver(l, j) ==
    /\ l \in DOMAIN layers
    /\ j \in DOMAIN rollOvers[l]
    /\ Topmost(l, j)
    /\ tooltip' = IF graph.options.tooltip.show
                  THEN TooltipPosition(layers[l], j, rollOvers[l][j].topPoint)
                  ELSE tooltip
    /\ highlightSets' = [highlightSets EXCEPT ![l] =
                            ShowHighlights(@, currentHighlights[l], j)]
    /\ currentHighlights' = [currentHighlights EXCEPT ![l] = j]
    /\ UNCHANGED <<graph, alive, layers, animation, numPoints, tooltips, drawn, walk, rollOvers>>

\* Variant of MouseLeave: only the handler registered last is still bound
MouseLeaveLastHandler ==
    /\ highlightSets' = [l \in DOMAIN layers |->
                            IF l = Len(layers)
                            THEN HideHighlights(highlightSets[l], currentHighlights[l])
                            ELSE highlightSets[l]]
    /\ UNCHANGED <<graph, alive, layers, animation, numPoints, tooltips, drawn, walk, rollOvers,
                   currentHighlights, tooltip>>

\* graph.$el.mouseleave: the handler every lines() instance registered runs
MouseLeave ==
    /\ highlightSets' = [l \in DOMAIN layers |->
                            HideHighlights(highlightSets[l], currentHighlights[l])]
    /\ UNCHANGED <<graph, alive, layers, animation, numPoints, tooltips, drawn, walk, rollOvers,
                   currentHighlights, tooltip>>

---------------------------------------------------------------------------
(* Charts *)

\* all sequences of length n over S
SeqsOf(S, n) == [1 .. n -> S]

AllSeriesOptions ==
    [ interpolateNulls : BOOLEAN, type : {"line", "step"}, fillLines : BOOLEAN,
      showPoints : BOOLEAN, labelPoints : BOOLEAN, pointStroke : {TRUE} ]

PlainOptions ==
    [ interpolateNulls |-> FALSE, type |-> "line", fillLines |-> FALSE,
      showPoints |-> FALSE, labelPoints |-> FALSE, pointStroke |-> TRUE ]

\* the layers of s series of n points each
LayersOf(n, s, values, minVals, options) ==
    [ series : SeqsOf(SeqsOf(values, n), s), seriesOptions : options,
      minVal : minVals, yTick : {10} ]

Min(a, b) == IF a < b THEN a ELSE b

\* the charts of nLayers layers of n points each, every layer with 1 .. maxSeries
\* series and all layers together with at most seriesLeft series
RECURSIVE ChartsOf(_, _, _, _, _, _, _)
ChartsOf(nLayers, n, maxSeries, seriesLeft, values, minVals, options) ==
    IF nLayers = 0 THEN {<<>>}
    ELSE UNION { { <<layer>> \o rest :
                     layer \in LayersOf(n, s, values, minVals, options),
                     rest \in ChartsOf(nLayers - 1, n, maxSeries, seriesLeft - s,
                                       values, minVals, options) } :
                 s \in 1 .. Min(maxSeries, seriesLeft - (nLayers - 1)) }

\* graph.tooltips: a tooltip for every x-index, for any of them, for none
TipSets(tips, n) ==
    IF tips = "every" THEN {0 .. (n - 1)}
    ELSE IF tips = "any" THEN SUBSET (0 .. (n - 1))
    ELSE {{}}

\* the state after every layer's lines(graph, series, seriesIndex) has run; a
\* chart holds at most maxPoints points
InitChart(graphs, nLayers, lens, maxSeries, maxPoints, values, minVals, options, anims, tips) ==
    /\ graph \in graphs
    /\ alive = TRUE
    /\ numPoints \in lens
    /\ layers \in ChartsOf(nLayers, numPoints, maxSeries,
                           IF numPoints = 0 THEN nLayers * maxSeries
                           ELSE maxPoints \div numPoints,
                           values, minVals, options)
    /\ animation \in anims
    /\ tooltips \in TipSets(tips, numPoints)
    /\ drawn = [l \in DOMAIN layers |-> FALSE]
    /\ walk = [l \in DOMAIN layers |-> [j \in DOMAIN layers[l].series |-> IdleWalk]]
    /\ rollOvers = [l \in DOMAIN layers |-> <<>>]
    /\ highlightSets = [l \in DOMAIN layers |-> <<>>]
    /\ currentHighlights = [l \in DOMAIN layers |-> EmptySet]
    /\ tooltip = [left |-> 0, bottom |-> 0]

\* one line layer, drawn immediately or animated
Init ==
    InitChart({PlainGraph}, 1, 0 .. MaxLen, NumSeries, MaxPoints, {Null, Num(0), Num(2)}, {0},
              AllSeriesOptions, BOOLEAN, "every")

Next ==
    \/ \E l \in 1 .. NumLayers : DrawAllLines(l)
    \/ \E l \in 1 .. NumLayers, j \in 1 .. NumSeries : AnimationComplete(l, j)

Spec == Init /\ [][Next]_vars

\* the options that decide the path: neither fills nor overlays
AllPathOptions ==
    [ interpolateNulls : BOOLEAN, type : {"line", "step"}, fillLines : {FALSE},
      showPoints : {FALSE}, labelPoints : {FALSE}, pointStroke : {TRUE} ]

\* one line layer without fills and overlays, drawn immediately or animated
InitFair ==
    InitChart({PlainGraph}, 1, 0 .. MaxLen, NumSeries, MaxPoints, {Null, Num(0), Num(2)}, {0},
              AllPathOptions, BOOLEAN, "every")

\* the caller has called draw(), and every animation's completion callback fires
FairSpec ==
    /\ InitFair
    /\ [][Next]_vars
    /\ \A l \in 1 .. NumLayers : WF_vars(DrawAllLines(l))
    /\ \A l \in 1 .. NumLayers, j \in 1 .. NumSeries : WF_vars(AnimationComplete(l, j))

\* several line layers on one chart, drawn immediately, then pointer events
InitHover ==
    InitChart({PlainGraph}, NumLayers, 1 .. HoverLen, NumSeries, HoverPoints,
              {Null, Num(-1), Num(2)}, {-1, 0}, {PlainOptions}, {FALSE}, "any")

NextHover ==
    \/ \E l \in 1 .. NumLayers : DrawAllLines(l)
    \/ \E l \in 1 .. NumLayers, j \in 0 .. (HoverLen - 1) : MouseOver(l, j)
    \/ MouseLeave

SpecHover == InitHover /\ [][NextHover]_vars

\* the options with markers and labels on every point
MarkedOptions ==
    [ interpolateNulls : {FALSE}, type : {"line"}, fillLines : {FALSE},
      showPoints : {TRUE}, labelPoints : {TRUE}, pointStroke : BOOLEAN ]

\* charts of one short series with markers, over columns of every width, point
\* strokes of every width and every desired radius
InitRadius ==
    InitChart({ GraphOf(w, 10, s, r) :
                  w \in 0 .. MaxWidth, s \in 0 .. MaxStroke, r \in 0 .. MaxRadius },
              1, {1, 2}, 1, 2, {Null, Num(2)}, {0}, MarkedOptions, BOOLEAN, "none")

SpecRadius == InitRadius /\ [][Next]_vars

\* one series on a baseline at or below 0, with every combination of options
InitOverlay ==
    InitChart({PlainGraph}, 1, 1 .. MaxLen, 1, MaxPoints, {Null, Num(0), Num(2)}, {-1, 0},
              AllSeriesOptions, BOOLEAN, "every")

SpecOverlay == InitOverlay /\ [][Next]_vars

\* one series whose points may hold a value that is not a number
InitMalformed ==
    InitChart({PlainGraph}, 1, 1 .. MaxLen, 1, MaxPoints, {Null, Num(2), NotNumeric}, {0},
              AllSeriesOptions, BOOLEAN, "every")

SpecMalformed == InitMalformed /\ [][Next]_vars

\* one series with markers and rollovers, over columns and labels of every
\* even width, the labels as wide as the columns or not
InitMapper ==
    InitChart({ GraphOf(2 * a, 2 * b, 2, 3) : a, b \in 1 .. MaxHalfWidth },
              1, {1, 2}, 1, 2, {Null, Num(-1), Num(2)}, {-1, 0}, MarkedOptions, BOOLEAN,
              "every")

SpecMapper == InitMapper /\ [][Next]_vars

\* several animated series in one layer, with every combination of options
InitConcurrent ==
    InitChart({PlainGraph}, 1, 1 .. MaxLen, NumSeries, MaxPoints, {Null, Num(2)}, {0},
              AllSeriesOptions, {TRUE}, "every")

SpecConcurrent == InitConcurrent /\ [][Next]_vars

\* The chart is torn down (cleared or rebuilt by its owner). lines.js has no
\* part in it and keeps no flag of it: pending line animations stay pending.
TearDown ==
    /\ alive
    /\ alive' = FALSE
    /\ UNCHANGED <<graph, layers, animation, numPoints, tooltips, drawn, walk, rollOvers,
                   highlightSets, currentHighlights, tooltip>>

\* one animated series, with every combination of options
InitTeardown ==
    InitChart({PlainGraph}, 1, 1 .. MaxLen, 1, MaxPoints, {Null, Num(0), Num(2)}, {0},
              AllSeriesOptions, {TRUE}, "every")

\* draw() is called on a live chart only; callbacks fire whenever their animation ends
NextTeardown ==
    \/ \E l \in 1 .. NumLayers : alive /\ DrawAllLines(l)
    \/ \E l \in 1 .. NumLayers, j \in 1 .. NumSeries : AnimationComplete(l, j)
    \/ TearDown

SpecTeardown == InitTeardown /\ [][NextTeardown]_vars

---------------------------------------------------------------------------
(* Vocabulary of the properties *)

\* the elements of a sequence
Range(seq) == {seq[n] : n \in DOMAIN seq}

\* the point has no value
Missing(value) == value.t = "null"

NoneMissing(series) == \A i \in DOMAIN series : ~Missing(series[i])

\* the pixel of point index of a series
Pixel(layer, series, index) ==
    Pt(PointX(index), PointY(series[index + 1], layer.minVal, layer.yTick))

\* the markers, labels or highlight circles among the records rs that sit on pixel p
At(rs, p) == {r \in rs : r.x = p.x /\ r.y = p.y}

\* the label of point index at pixel p is not suppressed
LabelShown(index, p) ==
    /\ ~(graph.height - graph.labelLineHeight < p.y)
    /\ index % graph.showEvery = 0

\* the indices before index whose points have a value
PlottedBefore(series, index) == {m \in 0 .. (index - 1) : ~Missing(series[m + 1])}

\* the greatest element of a non-empty set of indices
Greatest(S) == CHOOSE m \in S : \A n \in S : n <= m

IsMoveTo(pathString) == Len(pathString) = 1 /\ pathString[1].c = "M"

IsDrawTo(pathString) == Len(pathString) >= 1 /\ \A n \in DOMAIN pathString : pathString[n].c = "L"

\* the draw-to from pixel p to pixel q: a step pair under step, one segment otherwise
DrawToOf(seriesOptions, p, q) ==
    IF seriesOptions.type = "step"
    THEN <<LineTo(q.x, p.y), LineTo(q.x, q.y)>>
    ELSE <<LineTo(q.x, q.y)>>

\* where the pen is after a path
PenAfter(path) == IF path = <<>> THEN NoPoint ELSE Pt(path[Len(path)].x, path[Len(path)].y)

\* the point follows a null point that is not the first point
AfterGap(series, index) ==
    /\ index >= 2
    /\ ~Missing(series[index + 1])
    /\ Missing(series[index])

---------------------------------------------------------------------------
(* Path construction *)

\* C1: without interpolateNulls and type 'step', the first point with a value
\* after a null point at an index k > 0 emits exactly one move-to at its own
\* pixel and no draw-to.
C1_RestartAfterGap ==
    \A l \in DOMAIN layers : \A j \in DOMAIN walk[l] :
        LET series == layers[l].series[j]
            segs == walk[l][j].segments
        IN  ~Interpolates(layers[l].seriesOptions) =>
                \A n \in DOMAIN segs :
                    AfterGap(series, segs[n].index) =>
                        LET p == Pixel(layers[l], series, segs[n].index)
                        IN  segs[n].pathString = <<MoveTo(p.x, p.y)>>

\* C1 witness: mode none, series [v, null, v'], the point at index 2 has been walked
C1_Witness ==
    \E l \in DOMAIN layers : \E j \in DOMAIN walk[l] :
        /\ ~Interpolates(layers[l].seriesOptions)
        /\ Len(layers[l].series[j]) = 3
        /\ ~Missing(layers[l].series[j][1])
        /\ AfterGap(layers[l].series[j], 2)
        /\ Len(walk[l][j].segments) = 3

\* C2 as stated: under interpolateNulls or step, null points at k > 0 emit
\* nothing and the first point with a value after them always emits a draw-to.
C2_AlwaysDrawToAfterGap ==
    \A l \in DOMAIN layers : \A j \in DOMAIN walk[l] :
        LET series == layers[l].series[j]
            segs == walk[l][j].segments
        IN  Interpolates(layers[l].seriesOptions) =>
                \A n \in DOMAIN segs :
                    /\ (segs[n].index > 0 /\ Missing(series[segs[n].index + 1]))
                           => segs[n].pathString = <<>>
                    /\ AfterGap(series, segs[n].index) => IsDrawTo(segs[n].pathString)

\* C2 amended: under interpolateNulls or step, a null point at k > 0 emits
\* nothing and hands prevPoint on unchanged; the first point with a value after
\* it, when some point before k has a value, emits the draw-to (step pair under
\* step) from the last such point, where the pen still is.
C2_DrawToAcrossGap ==
    \A l \in DOMAIN layers : \A j \in DOMAIN walk[l] :
        LET series == layers[l].series[j]
            segs == walk[l][j].segments
            so == layers[l].seriesOptions
        IN  Interpolates(so) =>
                \A n \in DOMAIN segs :
                    LET i == segs[n].index
                    IN  /\ (i > 0 /\ Missing(series[i + 1])) =>
                              /\ segs[n].pathString = <<>>
                              /\ (n + 1) \in DOMAIN segs => segs[n + 1].prevPoint = segs[n].prevPoint
                        /\ (AfterGap(series, i) /\ PlottedBefore(series, i) # {}) =>
                              LET from == Pixel(layers[l], series, Greatest(PlottedBefore(series, i)))
                              IN  /\ segs[n].prevPoint = from
                                  /\ PenAfter(segs[n].currentPath) = from
                                  /\ segs[n].pathString
                                       = DrawToOf(so, from, Pixel(layers[l], series, i))

\* C2 witness: interpolating, series [v, null, v'], the point at index 2 has been walked
C2_Witness ==
    \E l \in DOMAIN layers : \E j \in DOMAIN walk[l] :
        /\ Interpolates(layers[l].seriesOptions)
        /\ Len(layers[l].series[j]) = 3
        /\ layers[l].series[j][1] = Num(2)
        /\ layers[l].series[j][3] = Num(0)
        /\ AfterGap(layers[l].series[j], 2)
        /\ Len(walk[l][j].segments) = 3

\* the path of a series without null points: move-to the first pixel, then one
\* draw-to per further point
RECURSIVE DrawTosFrom(_, _, _)
DrawTosFrom(layer, series, index) ==
    IF index >= Len(series) THEN <<>>
    ELSE DrawToOf(layer.seriesOptions, Pixel(layer, series, index - 1),
                  Pixel(layer, series, index))
         \o DrawTosFrom(layer, series, index + 1)

\* C3: once a series of N >= 1 points, none of them null, is drawn (immediately
\* or by animation), the line's path is one move-to at index 0 followed by the
\* N - 1 draw-tos of the indices 1 .. N-1, in every mode.
C3_OneMoveThenDrawTos ==
    \A l \in DOMAIN layers : \A j \in DOMAIN walk[l] :
        LET series == layers[l].series[j]
            first == Pixel(layers[l], series, 0)
        IN  (walk[l][j].status = "done" /\ Len(series) >= 1 /\ NoneMissing(series)) =>
                /\ walk[l][j].linePath
                     = <<MoveTo(first.x, first.y)>> \o DrawTosFrom(layers[l], series, 1)
                /\ \A n \in DOMAIN walk[l][j].segments :
                     IF n = 1 THEN IsMoveTo(walk[l][j].segments[n].pathString)
                     ELSE IsDrawTo(walk[l][j].segments[n].pathString)

\* C3 witness: an animated step series of three values, drawn to the end
C3_Witness ==
    \E l \in DOMAIN layers : \E j \in DOMAIN walk[l] :
        /\ animation
        /\ layers[l].seriesOptions.type = "step"
        /\ Len(layers[l].series[j]) = 3
        /\ NoneMissing(layers[l].series[j])
        /\ walk[l][j].status = "done"

\* C7: every draw-to starts at the previous plotted point (px, py), which is
\* the pixel of the last point with a value and where the pen is; under step it
\* is the two segments to (x, py) and then to (x, y), otherwise the one segment
\* to (x, y).
C7_StepPairOrSingleSegment ==
    \A l \in DOMAIN layers : \A j \in DOMAIN walk[l] :
        LET series == layers[l].series[j]
            segs == walk[l][j].segments
        IN  \A n \in DOMAIN segs :
                (\E k \in DOMAIN segs[n].pathString : segs[n].pathString[k].c = "L") =>
                    LET i == segs[n].index
                        q == Pixel(layers[l], series, i)
                        prev == segs[n].prevPoint
                    IN  /\ prev.some
                        /\ PlottedBefore(series, i) # {}
                        /\ prev = Pixel(layers[l], series, Greatest(PlottedBefore(series, i)))
                        /\ PenAfter(segs[n].currentPath) = prev
                        /\ IF layers[l].seriesOptions.type = "step"
                           THEN segs[n].pathString = <<LineTo(q.x, prev.y), LineTo(q.x, q.y)>>
                           ELSE segs[n].pathString = <<LineTo(q.x, q.y)>>

\* C7 witness: a step pair across a null gap whose two segments end at different heights
C7_Witness ==
    \E l \in DOMAIN layers : \E j \in DOMAIN walk[l] :
        /\ layers[l].seriesOptions.type = "step"
        /\ \E n \in DOMAIN walk[l][j].segments :
             LET e == walk[l][j].segments[n]
             IN  /\ Len(e.pathString) = 2
                 /\ e.pathString[1].y # e.pathString[2].y
                 /\ AfterGap(layers[l].series[j], e.index)

\* C17: the call for index 0 emits one move-to, whether its point is null or
\* not; in every mode the first point with a value emits one move-to at its
\* own pixel and no draw-to, also when only null points precede it; and when
\* the first point is null, no draw-to and no fill starts in its column.
C17_FirstPointMovesTo ==
    \A l \in DOMAIN layers : \A j \in DOMAIN walk[l] :
        LET series == layers[l].series[j]
            w == walk[l][j]
        IN  /\ \A n \in DOMAIN w.segments :
                 LET g == w.segments[n]
                     p == Pixel(layers[l], series, g.index)
                 IN  /\ g.index = 0 => g.pathString = <<MoveTo(p.x, p.y)>>
                     /\ (~Missing(series[g.index + 1]) /\ PlottedBefore(series, g.index) = {})
                            => g.pathString = <<MoveTo(p.x, p.y)>>
                     /\ (Missing(series[1]) /\ ~IsMoveTo(g.pathString) /\ g.pathString # <<>>)
                            => PenAfter(g.currentPath).x # PointX(0)
            /\ Missing(series[1]) => \A f \in Range(w.fills) : f.path[1].x # PointX(0)

\* C17 witness: an interpolating series [null, null, v] is drawn: the move-to
\* of index 0 and the move-to of index 2 are its path
C17_Witness ==
    \E l \in DOMAIN layers : \E j \in DOMAIN walk[l] :
        LET series == layers[l].series[j]
            w == walk[l][j]
        IN  /\ Interpolates(layers[l].seriesOptions)
            /\ Len(series) = 3
            /\ Missing(series[1]) /\ Missing(series[2]) /\ ~Missing(series[3])
            /\ w.status = "done"
            /\ Len(w.linePath) = 2
            /\ w.linePath[1].c = "M" /\ w.linePath[2].c = "M"

\* C20: in every state of the walk and in every mode, a call that takes the
\* draw-to branch (index > 0, line started, point not null) has a prevPoint;
\* between calls, a started line that the next call will not reset has one
\* too; so no call raises on reading the y of a missing prevPoint.
C20_DrawToHasPrevPoint ==
    \A l \in DOMAIN layers : \A j \in DOMAIN walk[l] :
        LET series == layers[l].series[j]
            so == layers[l].seriesOptions
            w == walk[l][j]
        IN  /\ w.status # "error"
            /\ \A n \in DOMAIN w.segments :
                 LET g == w.segments[n]
                 IN  (g.index > 0 /\ g.isLineStarted /\ ~Missing(series[g.index + 1]))
                         => g.prevPoint.some
            /\ LineStartedOnEntry(w.prevPoint, so, w.isLineStarted) => w.prevPoint.some
            /\ \A a \in w.animating :
                 LineStartedOnEntry(a.thisPoint, so, a.isLineStarted) => a.thisPoint.some

\* C20 witness: a step series [v, null, v'] is drawn: the call for index 2
\* took the draw-to branch with the pixel of index 0 as its prevPoint
C20_Witness ==
    \E l \in DOMAIN layers : \E j \in DOMAIN walk[l] :
        LET series == layers[l].series[j]
            w == walk[l][j]
        IN  /\ layers[l].seriesOptions.type = "step"
            /\ Len(series) = 3
            /\ ~Missing(series[1]) /\ Missing(series[2]) /\ ~Missing(series[3])
            /\ w.status = "done"
            /\ w.segments[3].isLineStarted
            /\ w.segments[3].prevPoint = Pixel(layers[l], series, 0)
            /\ Len(w.segments[3].pathString) = 2

---------------------------------------------------------------------------
(* Fill *)

\* C6: every fill shape created at index i joins the points i-1 and i, both of
\* which have a value: (prevX, baseline), (prevX, prevY), (x_i, y_i), (x_i, baseline).
C6_NoFillAcrossGap ==
    \A l \in DOMAIN layers : \A j \in DOMAIN walk[l] :
        LET series == layers[l].series[j]
            fills == walk[l][j].fills
        IN  \A n \in DOMAIN fills :
                LET i == fills[n].index
                IN  /\ i >= 1
                    /\ ~Missing(series[i + 1])
                    /\ ~Missing(series[i])
                    /\ LET p == Pixel(layers[l], series, i - 1)
                           q == Pixel(layers[l], series, i)
                       IN  fills[n].path = << MoveTo(p.x, YZero), LineTo(p.x, p.y),
                                              LineTo(q.x, q.y), LineTo(q.x, YZero) >>

---------------------------------------------------------------------------
(* Sequencing *)

\* the sequence 0, 1, ..., n-1
UpTo(n) == [k \in 1 .. n |-> k - 1]

\* C5: under animation a series has at most one line animation in flight, and
\* the animation of segment i is in flight only when the callbacks of all the
\* segments before i have fired and the calls so far were for 0, 1, ..., i.
C5_OneSegmentAnimationAtATime ==
    \A l \in DOMAIN layers : \A j \in DOMAIN walk[l] :
        LET w == walk[l][j]
        IN  /\ Cardinality(w.animating) <= 1
            /\ \A a \in w.animating :
                 /\ animation
                 /\ a.index = w.index
                 /\ w.visited = UpTo(a.index + 1)
                 /\ a.index > 0 => w.linePath = w.currentPath
                 /\ a.path = w.currentPath \o w.segments[a.index + 1].pathString

\* C5 witness: the animation of the third segment of a series is in flight
C5_Witness ==
    \E l \in DOMAIN layers : \E j \in DOMAIN walk[l] :
        \E a \in walk[l][j].animating : a.index = 2

\* the indices of a sequence of markers or labels
IndicesOf(rs) == [n \in DOMAIN rs |-> rs[n].index]

StrictlyIncreasing(seq) == \A m, n \in DOMAIN seq : m < n => seq[m] < seq[n]

\* the path made of the segments of the calls for the indices below index
RECURSIVE PathUpTo(_, _)
PathUpTo(segments, index) ==
    IF segments = <<>> \/ Head(segments).index >= index THEN <<>>
    ELSE Head(segments).pathString \o PathUpTo(Tail(segments), index)

\* C18: in both modes, at every moment, the markers of a series are those of
\* its points with a value whose segment has been committed (all of them
\* under showPoints, none otherwise), one each and in increasing index order,
\* and likewise the labels under labelPoints and the label rule; a null point
\* has neither; the line holds the path up to the last point with overlays;
\* and the call for index i + 1 is made only when point i has its overlays:
\* while the animation of segment i is in flight, point i has none.
C18_OverlaysAfterCommitInOrder ==
    \A l \in DOMAIN layers : \A j \in DOMAIN walk[l] :
        LET series == layers[l].series[j]
            so == layers[l].seriesOptions
            w == walk[l][j]
            committed == {i \in 0 .. (w.index - 1) : ~Missing(series[i + 1])}
        IN  /\ StrictlyIncreasing(IndicesOf(w.points))
            /\ StrictlyIncreasing(IndicesOf(w.labels))
            /\ Range(IndicesOf(w.points)) = (IF so.showPoints THEN committed ELSE {})
            /\ Range(IndicesOf(w.labels))
                 = (IF so.labelPoints
                    THEN {i \in committed : LabelShown(i, Pixel(layers[l], series, i))}
                    ELSE {})
            /\ w.index > 0 => w.linePath = PathUpTo(w.segments, w.index)
            /\ Len(w.visited) <= w.index + 1
            /\ \A a \in w.animating : a.index = w.index

\* C18 witness: the animation of the third segment of a series of three
\* values is in flight: the markers of points 0 and 1 and the label of point
\* 0 are there, those of point 2 are not
C18_Witness ==
    \E l \in DOMAIN layers : \E j \in DOMAIN walk[l] :
        LET w == walk[l][j]
        IN  /\ NoneMissing(layers[l].series[j])
            /\ \E a \in w.animating : a.index = 2
            /\ IndicesOf(w.points) = <<0, 1>>
            /\ IndicesOf(w.labels) = <<0>>

\* the walk of a series drawn without animation: every call sets the path,
\* draws the overlays and makes the next call
RECURSIVE ImmediateWalk(_, _, _)
ImmediateWalk(w, series, layer) ==
    IF EndOfSeries(w.index, series)
    THEN [w EXCEPT !.status = "done"]
    ELSE Only({ IF s.throws
                THEN [s.walk EXCEPT !.status = "error"]
                ELSE Only({ ImmediateWalk(c, series, layer) :
                              c \in {Commit(s.walk, s.anim, series, layer)} })
                : s \in {Step(w, series, layer)} })

IsPrefix(s, t) == Len(s) <= Len(t) /\ \A n \in DOMAIN s : s[n] = t[n]

\* what an animated series has drawn so far is the beginning of what immediate
\* mode draws for it, and all of it once the series is done
AsImmediate ==
    \A l \in DOMAIN layers : \A j \in DOMAIN walk[l] :
        (animation /\ drawn[l]) =>
            \E imm \in {ImmediateWalk(NewLine(IdleWalk), layers[l].series[j], layers[l])} :
                LET w == walk[l][j]
                IN  /\ w.status # "error"
                    /\ IsPrefix(w.segments, imm.segments)
                    /\ IsPrefix(w.fills, imm.fills)
                    /\ IsPrefix(w.points, imm.points)
                    /\ IsPrefix(w.labels, imm.labels)
                    /\ w.index > 0 => IsPrefix(w.linePath, imm.linePath)
                    /\ w.status = "done" =>
                           /\ w.linePath = imm.linePath
                           /\ w.segments = imm.segments
                           /\ w.fills = imm.fills
                           /\ w.points = imm.points
                           /\ w.labels = imm.labels
                           /\ w.prevPoint = imm.prevPoint
                           /\ w.isLineStarted = imm.isLineStarted

\* the completion callback of a series leaves the walks of the other series alone
OwnWalkOnly ==
    \A l \in 1 .. NumLayers, j \in 1 .. NumSeries :
        AnimationComplete(l, j) =>
            \A k \in DOMAIN walk[l] : k # j => walk'[l][k] = walk[l][k]

\* C19: for several series animating at once, under every interleaving of
\* their completion callbacks, each series' path, fills and overlays are at
\* every moment the beginning of, and in the end equal to, what immediate mode
\* produces for that series; a callback changes the render state of its own
\* series only.
C19_TimedAsImmediatePerSeries == []AsImmediate /\ [][OwnWalkOnly]_vars

\* C19 witness: two different series of three points each, with fills and
\* markers, are done while between them the callbacks interleaved: one was
\* two segments ahead of the other
C19_Witness ==
    \E l \in DOMAIN layers :
        /\ animation
        /\ Len(walk[l]) = 2
        /\ numPoints = 3
        /\ layers[l].series[1] # layers[l].series[2]
        /\ layers[l].seriesOptions.fillLines /\ layers[l].seriesOptions.showPoints
        /\ walk[l][1].status = "done"
        /\ walk[l][2].status = "animating"
        /\ walk[l][2].index = 0
        /\ walk[l][1].fills # <<>> /\ walk[l][1].points # <<>>

WalkedInOrder ==
    \A l \in DOMAIN layers : \A j \in DOMAIN walk[l] :
        LET w == walk[l][j]
            N == Len(layers[l].series[j])
        IN  /\ w.status # "error"
            /\ Len(w.visited) <= N
            /\ w.visited = UpTo(Len(w.visited))
            /\ w.status = "done" => (w.visited = UpTo(N) /\ w.index = N)

AllDrawn ==
    \A l \in DOMAIN layers :
        drawn[l] /\ \A j \in DOMAIN walk[l] : walk[l][j].status = "done"

\* C8: the walk of a series of N points calls drawLine for 0, 1, ..., N-1 in
\* this order, each once, never raises, and returns only at index N; once draw()
\* has been called and the completion callbacks fire, every series finishes.
C8_WalkVisitsAllAndEnds == [] WalkedInOrder /\ <> AllDrawn

\* C8 witness: an animated series of three points has finished
C8_Witness ==
    \E l \in DOMAIN layers : \E j \in DOMAIN walk[l] :
        /\ animation
        /\ Len(layers[l].series[j]) = 3
        /\ walk[l][j].status = "done"
        /\ walk[l][j].visited = <<0, 1, 2>>

\* what a drawn series of no points leaves behind, apart from the line object
NothingDrawn(w) ==
    /\ w.status = "done"
    /\ w.visited = <<>>
    /\ w.segments = <<>>
    /\ w.currentPath = <<>>
    /\ w.animating = {}
    /\ w.fills = <<>>
    /\ w.points = <<>>
    /\ w.labels = <<>>

\* C9 as stated: for a series of length 0 nothing is emitted or requested, no
\* error is raised, and no path object is created or updated.
C9_NoPathObject ==
    \A l \in DOMAIN layers : \A j \in DOMAIN walk[l] :
        (drawn[l] /\ Len(layers[l].series[j]) = 0) =>
            /\ NothingDrawn(walk[l][j])
            /\ ~walk[l][j].lineCreated
            /\ walk[l][j].linePath = <<>>

\* C9 amended: for a series of length 0 drawLine returns at once: no segment,
\* fill, marker, label or animation is requested and no error is raised; the
\* line object that drawAllLines creates with path "M0 0" before the call is
\* the only path object and is never updated; no rollover is built.
C9_EmptySeriesLeavesPlaceholder ==
    \A l \in DOMAIN layers : \A j \in DOMAIN walk[l] :
        (drawn[l] /\ Len(layers[l].series[j]) = 0) =>
            /\ NothingDrawn(walk[l][j])
            /\ walk[l][j].lineCreated
            /\ walk[l][j].linePath = <<MoveTo(0, 0)>>
            /\ rollOvers[l] = <<>>
            /\ highlightSets[l] = <<>>

\* C9 witness: a layer of two series of length 0 has been drawn
C9_Witness ==
    \E l \in DOMAIN layers :
        /\ drawn[l]
        /\ Len(layers[l].series) = 2
        /\ \A j \in DOMAIN walk[l] : Len(layers[l].series[j]) = 0

---------------------------------------------------------------------------
(* Null and zero *)

\* C12: a point of value 0 is a point like any other number: its call emits a
\* move-to or draw-to ending at its pixel, it gets its marker under showPoints
\* and its label under labelPoints by the rule of every label, its value is
\* collected by the rollover of its column and it gets a highlight circle;
\* only a null point emits nothing (after index 0) and gets none of these.
C12_ZeroIsNotNull ==
    \A l \in DOMAIN layers : \A j \in DOMAIN walk[l] :
        LET series == layers[l].series[j]
            so == layers[l].seriesOptions
            w == walk[l][j]
        IN  /\ \A n \in DOMAIN w.segments :
                 LET i == w.segments[n].index
                     p == Pixel(layers[l], series, i)
                 IN  IF Missing(series[i + 1])
                     THEN i > 0 => w.segments[n].pathString = <<>>
                     ELSE /\ w.segments[n].pathString # <<>>
                          /\ PenAfter(w.segments[n].pathString) = p
            /\ \A i \in 0 .. (w.index - 1) :
                 LET p == Pixel(layers[l], series, i)
                     markers == {m \in Range(w.points) : m.index = i}
                     labels == {m \in Range(w.labels) : m.index = i}
                 IN  IF Missing(series[i + 1])
                     THEN markers = {} /\ labels = {}
                     ELSE /\ Cardinality(markers) = (IF so.showPoints THEN 1 ELSE 0)
                          /\ Cardinality(labels)
                               = (IF so.labelPoints /\ LabelShown(i, p) THEN 1 ELSE 0)
                          /\ At(markers, p) = markers
                          /\ At(labels, p) = labels
            /\ \A i \in DOMAIN rollOvers[l] :
                 LET p == Pixel(layers[l], series, i)
                     circles == {c \in Range(highlightSets[l][i]) : c.series = j}
                 IN  /\ Len(rollOvers[l][i].pointsInSet)
                          = Cardinality({k \in DOMAIN layers[l].series :
                                           ~Missing(layers[l].series[k][i + 1])})
                     /\ IF Missing(series[i + 1])
                        THEN circles = {}
                        ELSE /\ series[i + 1] \in Range(rollOvers[l][i].pointsInSet)
                             /\ Cardinality(circles) = 1
                             /\ At(circles, p) = circles

\* C12 witness: a drawn series whose second point is 0 after a number: a
\* draw-to to the 0, and a third point 0 with its marker, label and highlight
\* circle, its value collected by its rollover
C12_Witness ==
    \E l \in DOMAIN layers : \E j \in DOMAIN walk[l] :
        LET series == layers[l].series[j]
            w == walk[l][j]
        IN  /\ w.status = "done"
            /\ Len(series) = 3
            /\ series[2] = Num(0)
            /\ series[3] = Num(0)
            /\ IsDrawTo(w.segments[2].pathString)
            /\ \E m \in Range(w.points) : m.index = 2
            /\ \E m \in Range(w.labels) : m.index = 2
            /\ rollOvers[l][2].pointsInSet = <<Num(0)>>
            /\ Len(highlightSets[l][2]) = 1

\* the point holds a value that is not a number
Malformed(value) == value.t = "string"

\* C13: a point whose value is present but not numeric is treated like a null
\* point: its call emits what a null point's call emits (nothing after index
\* 0), no fill ends at it, it gets no marker, no label and no highlight circle,
\* its value is not collected by its rollover, no call raises, and no
\* coordinate of the path is NaN.
C13_MalformedIsNull ==
    \A l \in DOMAIN layers : \A j \in DOMAIN walk[l] :
        LET series == layers[l].series[j]
            w == walk[l][j]
        IN  /\ w.status # "error"
            /\ \A n \in DOMAIN w.linePath : w.linePath[n].y # NaNCoordinate
            /\ \A n \in DOMAIN w.segments :
                 LET i == w.segments[n].index
                 IN  Malformed(series[i + 1]) =>
                         /\ w.segments[n].pathString
                              = (IF i = 0
                                 THEN <<MoveTo(PointX(0),
                                               PointY(Null, layers[l].minVal, layers[l].yTick))>>
                                 ELSE <<>>)
                         /\ \A m \in Range(w.fills) : m.index # i
                         /\ \A m \in Range(w.points) : m.index # i
                         /\ \A m \in Range(w.labels) : m.index # i
            /\ \A i \in DOMAIN rollOvers[l] :
                 Malformed(series[i + 1]) =>
                     /\ \A v \in Range(rollOvers[l][i].pointsInSet) : ~Malformed(v)
                     /\ \A c \in Range(highlightSets[l][i]) : c.series # j

---------------------------------------------------------------------------
(* Point radius *)

\* the stroked markers drawn so far
StrokedMarkers ==
    UNION { { walk[l][j].points[n] : n \in DOMAIN walk[l][j].points } :
            <<l, j>> \in { <<l, j>> \in (DOMAIN layers) \X (1 .. NumSeries) :
                             j \in DOMAIN walk[l] /\ layers[l].seriesOptions.pointStroke } }

\* C11 as stated: the resolved radius lies in [0, r], and 2 * resolved + s <= w - 1
\* whenever the column width, not r, is the binding constraint (raw <= r);
\* the stroked markers are drawn with the resolved radius. Radii in half pixels.
C11_RadiusFitsColumn ==
    LET w == graph.xTick
        s == graph.options.lines.pointStrokeWidth
        r == graph.options.lines.pointRadius
    IN  /\ 0 <= calculatedPointRadius
        /\ calculatedPointRadius <= 2 * r
        /\ (w - 1 - s <= 2 * r) => calculatedPointRadius + s <= w - 1
        /\ \A m \in StrokedMarkers : m.r = calculatedPointRadius

\* C11 amended: the resolved radius lies in [0, r]; when the column width is
\* the binding constraint and the column has room for the stroke and the
\* spacing (0 <= w - 1 - s <= 2r), 2 * resolved + s = w - 1; when it has no
\* room (w - 1 - s < 0) the radius is 0; the stroked markers are drawn with
\* the resolved radius.
C11_RadiusFitsColumnWithRoom ==
    LET w == graph.xTick
        s == graph.options.lines.pointStrokeWidth
        r == graph.options.lines.pointRadius
    IN  /\ 0 <= calculatedPointRadius
        /\ calculatedPointRadius <= 2 * r
        /\ (0 <= w - 1 - s /\ w - 1 - s <= 2 * r) => calculatedPointRadius + s = w - 1
        /\ (w - 1 - s < 0) => calculatedPointRadius = 0
        /\ \A m \in StrokedMarkers : m.r = calculatedPointRadius

\* C11 witness: a stroked marker drawn with a radius ending in .5 that the
\* column, not the desired radius, decides
C11_Witness ==
    /\ calculatedPointRadius % 2 = 1
    /\ calculatedPointRadius < 2 * graph.options.lines.pointRadius
    /\ \E m \in StrokedMarkers : m.r = calculatedPointRadius

---------------------------------------------------------------------------
(* Coordinates *)

\* what is drawn at point index of series j of layer l: the end of its path
\* segment, its marker, its highlight circle
DrawnAt(l, j, index) ==
    { [x |-> e.x, y |-> e.y] :
        e \in { PenAfter(g.pathString) :
                  g \in {g \in Range(walk[l][j].segments) : g.index = index} }
              \cup {m \in Range(walk[l][j].points) : m.index = index}
              \cup ( IF index \in DOMAIN highlightSets[l]
                     THEN {c \in Range(highlightSets[l][index]) : c.series = j}
                     ELSE {} ) }

\* everything drawn at a point with a value sits on the pixel (x, y), x being
\* i * xTick + paddingLeft + offsetX and y being
\* canvasHeight - (v - minVal) * yTick - paddingBottom + paddingTop
DrawnOnPixel(offsetX) ==
    \A l \in DOMAIN layers : \A j \in DOMAIN walk[l] :
        \A i \in 0 .. (Len(layers[l].series[j]) - 1) :
            LET v == layers[l].series[j][i + 1]
            IN  ~Missing(v) =>
                    DrawnAt(l, j, i) \subseteq
                        { [ x |-> i * graph.xTick + graph.padding.left + offsetX,
                            y |-> graph.height - (v.n - layers[l].minVal) * layers[l].yTick
                                    - graph.padding.bottom + graph.padding.top ] }

\* C16 as stated: the pixel x of point i is i * xTick + paddingLeft + xTick/2
\* and the pixel y of value v is canvasHeight - (v - minVal) * yTick
\* - paddingBottom + paddingTop; path vertex, marker and highlight circle of
\* one point coincide there.
C16_PixelAtHalfColumn == DrawnOnPixel(graph.xTick \div 2)

\* C16 amended: the pixel x of point i is i * xTick + paddingLeft
\* + labelWidth/2, the pixel y as stated; path vertex, marker and highlight
\* circle of one point coincide there.
C16_PixelAtHalfLabel == DrawnOnPixel(graph.labelWidth \div 2)

\* C16 witness: a point at index 1 with a value, in columns wider than the
\* labels, with its path vertex, its marker and its highlight circle drawn
C16_Witness ==
    \E l \in DOMAIN layers : \E j \in DOMAIN walk[l] :
        /\ graph.xTick > graph.labelWidth
        /\ Len(layers[l].series[j]) = 2
        /\ ~Missing(layers[l].series[j][2])
        /\ walk[l][j].status = "done"
        /\ \E m \in Range(walk[l][j].points) : m.index = 1
        /\ 1 \in DOMAIN highlightSets[l] /\ highlightSets[l][1] # <<>>
        /\ Cardinality(DrawnAt(l, j, 1)) = 1

---------------------------------------------------------------------------
(* Teardown *)

\* C14: a completion callback that fires after the chart has been torn down is
\* a no-op: it requests no marker, label, fill or line animation and does not
\* advance the walk of its series.
C14_StaleCallbackIsNoOp ==
    [][ (~alive /\ \E l \in 1 .. NumLayers, j \in 1 .. NumSeries : AnimationComplete(l, j))
          => UNCHANGED walk ]_vars

---------------------------------------------------------------------------
(* Hover *)

\* the highlight sets with a circle of non-zero opacity, over all layers
VisibleSets ==
    { <<l, j>> \in UNION { {l} \X DOMAIN highlightSets[l] : l \in DOMAIN layers } :
        \E k \in DOMAIN highlightSets[l][j] : highlightSets[l][j][k].opacity # 0 }

\* C4: at most one highlight set of the chart has non-zero opacity, over the
\* rollovers of all its line layers.
C4_OneVisibleSetOnChart == Cardinality(VisibleSets) <= 1

\* C15: a mouse-leave on the chart leaves no highlight set visible: after it
\* every highlight circle of every x-index of every layer has opacity 0,
\* whatever pointer-enter events came before.
C15_MouseLeaveHidesAll == [][MouseLeave => (VisibleSets = {})']_vars

\* C15 witness: the pointer has entered a rollover with highlight circles in
\* each of two layers, and since the mouse-leave none of them is visible
C15_Witness ==
    /\ VisibleSets = {}
    /\ \E l, m \in DOMAIN layers :
         /\ l # m
         /\ currentHighlights[l] # EmptySet
         /\ currentHighlights[m] # EmptySet
         /\ highlightSets[l][currentHighlights[l]] # <<>>
         /\ highlightSets[m][currentHighlights[m]] # <<>>

\* the values of column index of a layer
Column(layer, index) == {layer.series[i][index + 1] : i \in DOMAIN layer.series}

\* C10: the topPoint of every rollover is a number not below minVal, whatever
\* the values of its column, and the tooltip is never put lower than for a
\* point on the baseline.
C10_TopPointNotBelowMinVal ==
    /\ \A l \in DOMAIN layers : \A j \in DOMAIN rollOvers[l] :
         LET top == rollOvers[l][j].topPoint
             values == {v.n : v \in {c \in Column(layers[l], j) : ~Missing(c)}}
         IN  /\ top.t = "number"
             /\ top.n >= layers[l].minVal
             /\ \A v \in values : top.n >= v
             /\ top.n \in values \cup {layers[l].minVal}
    /\ \A l \in DOMAIN layers : \A j \in DOMAIN rollOvers[l] :
         currentHighlights[l] = j =>
             TooltipPosition(layers[l], j, rollOvers[l][j].topPoint).bottom
                 >= TooltipPosition(layers[l], j, Num(layers[l].minVal)).bottom

\* C10 witness: the pointer is over a column of two values, both below minVal,
\* and the tooltip sits at the baseline's height; another column is all null
C10_Witness ==
    \E l \in DOMAIN layers : \E j \in DOMAIN rollOvers[l] :
        /\ Len(layers[l].series) = 2
        /\ \A c \in Column(layers[l], j) : ~Missing(c) /\ c.n < layers[l].minVal
        /\ rollOvers[l][j].topPoint = Num(layers[l].minVal)
        /\ currentHighlights[l] = j
        /\ tooltip = TooltipPosition(layers[l], j, Num(layers[l].minVal))
        /\ \E m \in DOMAIN layers : \E k \in DOMAIN rollOvers[m] :
             \A c \in Column(layers[m], k) : Missing(c)

====
